---- MODULE Spec2Model ----
(***************************************************************************)
(* Blackijecky: wire codec (protocol.py), hand arithmetic (game.py), the   *)
(* server round engine (server.py) and the client session driver           *)
(* (client.py).                                                            *)
(*                                                                         *)
(* Python str values are sequences of code points, bytes values are        *)
(* sequences of integers 0..255, and None is the empty tuple (no decoder   *)
(* returns an empty tuple or an empty top-level string).                   *)
(***************************************************************************)
EXTENDS Integers, Sequences, FiniteSets, TLC

(***************************************************************************)
(* Bounds of the model                                                     *)
(***************************************************************************)
\* longest name (in code points) given to _pack_name
MaxNameLen == 34
\* largest type tag written into a corrupted buffer
MaxTag == 5
\* largest number of rounds a client asks for
MaxRounds == 2
\* cards of the modelled deck in a session of one round (longer sessions
\* play with SmallDeck)
DeckCards == 7
\* passes of the broadcaster loop that are followed
MaxTicks == 3
\* frames a server that does not follow the protocol writes in one session
MaxFrames == 5

(***************************************************************************)
(* protocol.py                                                             *)
(***************************************************************************)
\* 0xabcddcba as its four big-endian bytes ("!I"); the value itself does
\* not fit the model checker's 32-bit signed integers
MAGIC_COOKIE == <<171, 205, 220, 186>>

TYPE_OFFER == 2
TYPE_REQUEST == 3
TYPE_PAYLOAD == 4

RESULT_NOT_OVER == 0
RESULT_TIE == 1
RESULT_LOSS == 2
RESULT_WIN == 3

NAME_LEN == 32

OFFER_SIZE == 4 + 1 + 2 + NAME_LEN
REQUEST_SIZE == 4 + 1 + 1 + NAME_LEN
CLIENT_PAYLOAD_SIZE == 4 + 1 + 5
SERVER_PAYLOAD_SIZE == 4 + 1 + 1 + 2 + 1

None == <<>>

\* "Hittt" and "Stand" as code points
Hittt == <<72, 105, 116, 116, 116>>
Stand == <<83, 116, 97, 110, 100>>

\* data[a:b] of Python, 0-based, end exclusive, clipped to the length
Slice(data, a, b) ==
  LET hi == IF b < Len(data) THEN b ELSE Len(data)
  IN  IF a >= hi THEN <<>> ELSE [i \in 1..(hi - a) |-> data[a + i]]

\* str.encode("utf-8", errors="ignore") for code points below 0x800
RECURSIVE Utf8Encode(_)
Utf8Encode(s) ==
  IF s = <<>> THEN <<>>
  ELSE LET c == Head(s)
       IN  (IF c < 128 THEN <<c>>
            ELSE <<192 + (c \div 64), 128 + (c % 64)>>) \o Utf8Encode(Tail(s))

\* bytes.decode("utf-8", errors="ignore") for one- and two-byte sequences:
\* a byte that does not start a complete valid sequence is dropped
RECURSIVE Utf8Decode(_)
Utf8Decode(b) ==
  IF b = <<>> THEN <<>>
  ELSE LET x == Head(b)
       IN  IF x < 128 THEN <<x>> \o Utf8Decode(Tail(b))
           ELSE IF /\ x >= 194 /\ x <= 223 /\ Len(b) >= 2
                   /\ b[2] >= 128 /\ b[2] <= 191
                THEN <<(x - 192) * 64 + (b[2] - 128)>> \o Utf8Decode(Tail(Tail(b)))
                ELSE Utf8Decode(Tail(b))

\* bytes.decode("ascii", errors="ignore")
RECURSIVE AsciiDecode(_)
AsciiDecode(b) ==
  IF b = <<>> THEN <<>>
  ELSE (IF Head(b) < 128 THEN <<Head(b)>> ELSE <<>>) \o AsciiDecode(Tail(b))

\* raw.ljust(n, b"\x00")
Ljust(raw, n) ==
  IF Len(raw) >= n THEN raw
  ELSE [i \in 1..n |-> IF i <= Len(raw) THEN raw[i] ELSE 0]

\* b.split(b"\x00", 1)[0]
RECURSIVE SplitZero(_)
SplitZero(b) ==
  IF b = <<>> \/ Head(b) = 0 THEN <<>>
  ELSE <<Head(b)>> \o SplitZero(Tail(b))

\* _pack_name cutting one byte too early
pack_name_Short(name) == Ljust(Slice(Utf8Encode(name), 0, NAME_LEN - 1), NAME_LEN)

_pack_name(name) == Ljust(Slice(Utf8Encode(name), 0, NAME_LEN), NAME_LEN)

_unpack_name(b) == Utf8Decode(SplitZero(b))

\* struct "!H": 16-bit big-endian
PackH(v) == <<v \div 256, v % 256>>
UnpackH(b) == b[1] * 256 + b[2]

pack_offer(tcp_port, server_name) ==
  MAGIC_COOKIE \o <<TYPE_OFFER>> \o PackH(tcp_port % 65536) \o _pack_name(server_name)

unpack_offer(data) ==
  IF Len(data) < OFFER_SIZE THEN None
  ELSE LET cookie == Slice(data, 0, 4)
           mtype == data[5]
           tcp_port == UnpackH(Slice(data, 5, 7))
       IN  IF cookie # MAGIC_COOKIE \/ mtype # TYPE_OFFER THEN None
           ELSE <<tcp_port, _unpack_name(Slice(data, 7, 7 + NAME_LEN))>>

pack_request(num_rounds, client_name) ==
  MAGIC_COOKIE \o <<TYPE_REQUEST, num_rounds % 256>> \o _pack_name(client_name)

\* unpack_request rejecting only when cookie and type are both wrong
unpack_request_Both(data) ==
  IF Len(data) < REQUEST_SIZE THEN None
  ELSE LET cookie == Slice(data, 0, 4)
           mtype == data[5]
           nrounds == data[6]
       IN  IF cookie # MAGIC_COOKIE /\ mtype # TYPE_REQUEST THEN None
           ELSE <<nrounds, _unpack_name(Slice(data, 6, 6 + NAME_LEN))>>

unpack_request(data) ==
  IF Len(data) < REQUEST_SIZE THEN None
  ELSE LET cookie == Slice(data, 0, 4)
           mtype == data[5]
           rounds == data[6]
       IN  IF cookie # MAGIC_COOKIE \/ mtype # TYPE_REQUEST THEN None
           ELSE <<rounds, _unpack_name(Slice(data, 6, 6 + NAME_LEN))>>

\* defined for the two decisions only; any other text raises ValueError
pack_client_payload(decision) ==
  MAGIC_COOKIE \o <<TYPE_PAYLOAD>> \o decision

\* unpack_client_payload without the test of the decision text
unpack_client_payload_AnyText(data) ==
  IF Len(data) # CLIENT_PAYLOAD_SIZE THEN None
  ELSE LET cookie == Slice(data, 0, 4)
           mtype == data[5]
           decision == AsciiDecode(Slice(data, 5, 10))
       IN  IF cookie # MAGIC_COOKIE \/ mtype # TYPE_PAYLOAD THEN None
           ELSE decision

unpack_client_payload(data) ==
  IF Len(data) # CLIENT_PAYLOAD_SIZE THEN None
  ELSE LET cookie == Slice(data, 0, 4)
           mtype == data[5]
           decision == AsciiDecode(Slice(data, 5, 10))
       IN  IF cookie # MAGIC_COOKIE \/ mtype # TYPE_PAYLOAD THEN None
           ELSE IF decision \notin {Hittt, Stand} THEN None
           ELSE decision

pack_server_payload(result_code, rank, suit) ==
  MAGIC_COOKIE \o <<TYPE_PAYLOAD, result_code % 256>> \o PackH(rank % 65536)
    \o <<suit % 256>>

unpack_server_payload(data) ==
  IF Len(data) # SERVER_PAYLOAD_SIZE THEN None
  ELSE LET cookie == Slice(data, 0, 4)
           mtype == data[5]
           result == data[6]
           rank == UnpackH(Slice(data, 6, 8))
           suit == data[9]
       IN  IF cookie # MAGIC_COOKIE \/ mtype # TYPE_PAYLOAD THEN None
           ELSE <<result, rank, suit>>

(***************************************************************************)
(* game.py                                                                 *)
(***************************************************************************)
card_value(rank) ==
  IF rank = 1 THEN 11
  ELSE IF rank >= 11 THEN 10
  ELSE rank

RECURSIVE hand_value(_)
hand_value(hand) ==
  IF hand = <<>> THEN 0
  ELSE card_value(Head(hand)[1]) + hand_value(Tail(hand))

SUITS_LONG == <<"Hearts", "Diamonds", "Clubs", "Spades">>

IndexError == "IndexError"

\* the rank and suit names of the card; SUITS_LONG[suit] raises IndexError
\* for a suit that is not an index of the list
card_to_string(card) ==
  LET rank == card[1]
      suit == card[2]
      rank_str == CASE rank = 1 -> "A"
                    [] rank = 11 -> "J"
                    [] rank = 12 -> "Q"
                    [] rank = 13 -> "K"
                    [] OTHER -> rank
  IN  IF suit >= Len(SUITS_LONG) THEN IndexError
      ELSE <<rank_str, SUITS_LONG[suit + 1]>>

(***************************************************************************)
(* The deck.  create_deck builds rank x suit for ranks 1..13 and suits     *)
(* 0..3 and shuffles it; deck.pop() then yields any card not yet drawn.    *)
(* The model keeps the remaining cards as a set and draws any of them, on  *)
(* a sub-deck: the first cards of CardOrder.  Every prefix of five or more *)
(* cards has two Aces (22 can be dealt) and is heavy enough that a round   *)
(* ends before the sub-deck is empty, as it does with 52 cards.  Sessions  *)
(* of one round draw from DeckCards cards: hits and dealer draws that do   *)
(* not bust, ties, wins and losses on both sides.  In longer sessions the  *)
(* server deals the next round while the client still reads the last one,  *)
(* and every deal multiplies with every way the last round went; they draw *)
(* from the five-card prefix, the smallest on which no round runs out of   *)
(* cards, where every hit and every dealer draw busts.                     *)
(***************************************************************************)
CardOrder == << <<1, 0>>, <<1, 1>>, <<3, 0>>, <<10, 0>>, <<13, 1>>, <<3, 2>>,
                <<7, 3>>, <<8, 0>>, <<12, 2>> >>

SubDeck(n) == {CardOrder[k] : k \in 1..n}

SmallDeck == SubDeck(5)

NoCard == <<0, 0>>

(***************************************************************************)
(* server.py / client.py                                                   *)
(***************************************************************************)
\* "Blackijecky-Client"
CLIENT_NAME == <<66, 108, 97, 99, 107, 105, 106, 101, 99, 107, 121, 45,
                 67, 108, 105, 101, 110, 116>>

VARIABLES
  \* the TCP connection: frames in flight, oldest first; rnd is the sender's
  \* round counter when the frame was written (0 for the Request)
  s2c, c2s,
  \* handle_client / play_one_round
  spc, rounds, i, deck, player, dealer, last_card_sent,
  \* arguments of the send_card calls of the current round, and the values
  \* play_one_round has returned so far
  sent, returned,
  \* client main / play_session
  cpc, num_rounds, r, player_cards, dealer_cards, wins, losses, ties,
  \* environment bookkeeping: a read of the server has met a frame written
  \* malformed or short, the end of the stream, or the deadline; the number
  \* of rounds the server had finished when the peer went away between two
  \* rounds (0 otherwise); the rounds field of the Request the server has
  \* decoded (-1 before)
  read_failed, disc_k, req_rounds,
  \* codec harness: stage, message, buffer, decoder output
  stage, msg, buf, out,
  \* server main: its position, the stop_event, the broadcaster thread and
  \* the handle_client threads, one per accepted connection
  mpc, stop_event, bcast, worker,
  \* one round on the full deck, by card values
  table

srv_vars == <<spc, rounds, i, deck, player, dealer, last_card_sent, sent, returned>>
cli_vars == <<cpc, num_rounds, r, player_cards, dealer_cards, wins, losses, ties>>
env_vars == <<read_failed, disc_k, req_rounds>>
codec_vars == <<stage, msg, buf, out>>
main_vars == <<mpc, stop_event, bcast, worker>>
session_vars == <<s2c, c2s, srv_vars, cli_vars, env_vars>>
vars == <<s2c, c2s, srv_vars, cli_vars, env_vars, codec_vars, main_vars, table>>

\* create_deck() as the set of cards a fresh deck holds
create_deck == IF rounds = 1 THEN SubDeck(DeckCards) ELSE SmallDeck

Last(s) == s[Len(s)]

\* the client's socket is open while play_session runs
ClientPcs == {"round", "deal", "turn", "drain", "hit", "stand"}
client_open == cpc \in ClientPcs
server_open == spc # "closed"

\* server.py:90, the bust test at the head of the player loop
PlayerBust(hand) == hand_value(hand) > 21

\* the dealer loop condition drawing on 17 as well
DealerDraws_On17(hand) == hand_value(hand) <= 17

\* server.py:122, the dealer loop condition
DealerDraws(hand) == hand_value(hand) < 17

\* "Decide winner" with the two comparisons exchanged
DecideWinner_Swapped(ps, ds) ==
  IF ps > 21 THEN RESULT_LOSS
  ELSE IF ds > 21 THEN RESULT_WIN
  ELSE IF ps < ds THEN RESULT_WIN
  ELSE IF ps > ds THEN RESULT_LOSS
  ELSE RESULT_TIE

\* server.py:135-147, "Decide winner"
DecideWinner(ps, ds) ==
  IF ps > 21 THEN RESULT_LOSS
  ELSE IF ds > 21 THEN RESULT_WIN
  ELSE IF ps > ds THEN RESULT_WIN
  ELSE IF ps < ds THEN RESULT_LOSS
  ELSE RESULT_TIE

\* send_card(conn, card, result_code): sendall of the packed payload
send_card(card, result_code) ==
  [data |-> pack_server_payload(result_code, card[1], card[2]), rnd |-> i, bad |-> FALSE]

\* consecutive send_card calls, given as <<result_code, card>> pairs; before
\* is the record of the round's earlier calls.  Nothing is delivered to a
\* peer whose socket is closed.
send_cards(before, calls) ==
  /\ s2c' = IF cpc = "failed" THEN s2c
            ELSE s2c \o [k \in 1..Len(calls) |-> send_card(calls[k][2], calls[k][1])]
  /\ sent' = before \o [k \in 1..Len(calls) |->
                          <<calls[k][1], calls[k][2][1], calls[k][2][2]>>]

\* return from play_one_round into the for loop of handle_client
ReturnResult(result) ==
  /\ returned' = Append(returned, result)
  /\ i' = i + 1
  /\ spc' = "round"

\* the except / finally clauses of handle_client: log and conn.close()
ServerClose ==
  /\ spc' = "closed"
  /\ UNCHANGED <<rounds, i, deck, player, dealer, last_card_sent, sent, returned>>

\* recv_exact(conn, n) on the head of the stream: the frame when n bytes
\* are there, None when the peer closed before n bytes arrived
recv_exact(n) ==
  IF c2s # <<>> /\ Len(Head(c2s).data) >= n THEN Head(c2s).data ELSE None

\* a read returns when a frame is there or the peer has closed its socket
peer_closed == cpc \in {"failed", "finished", "crashed"}
CanRecv == c2s # <<>> \/ peer_closed

Consume ==
  /\ c2s' = IF c2s = <<>> THEN c2s ELSE Tail(c2s)
  /\ read_failed' = (read_failed \/ c2s = <<>> \/ Head(c2s).bad)

\* the floor of the rounds field left out
ClampRounds_None(n) == n

\* server.py:166-167, "if rounds < 1: rounds = 1"
ClampRounds(n) == IF n < 1 THEN 1 ELSE n

\* handle_client, lines 157-167: read and decode the Request, clamp rounds
ServerRecvRequest ==
  /\ spc = "request"
  /\ CanRecv
  /\ Consume
  /\ LET req == recv_exact(REQUEST_SIZE)
         parsed == IF req = None THEN None ELSE unpack_request(req)
     IN  IF parsed = None
         THEN ServerClose /\ UNCHANGED req_rounds
         ELSE /\ rounds' = ClampRounds(parsed[1])
              /\ req_rounds' = parsed[1]
              /\ i' = 1
              /\ spc' = "round"
              /\ UNCHANGED <<deck, player, dealer, last_card_sent, sent, returned>>
  /\ UNCHANGED <<s2c, cli_vars, disc_k, codec_vars, main_vars, table>>

\* the initial deal sending the dealer's second card as the upcard
ServerDeal_ShowsHole ==
  /\ spc = "round"
  /\ i <= rounds
  /\ \E c1 \in create_deck : \E c2 \in create_deck \ {c1} :
     \E c3 \in create_deck \ {c1, c2} : \E c4 \in create_deck \ {c1, c2, c3} :
       /\ player' = <<c1, c2>>
       /\ dealer' = <<c3, c4>>
       /\ deck' = create_deck \ {c1, c2, c3, c4}
       /\ send_cards(<<>>, <<<<RESULT_NOT_OVER, c1>>, <<RESULT_NOT_OVER, c2>>,
                             <<RESULT_NOT_OVER, c4>>>>)
       /\ last_card_sent' = c4
  /\ spc' = "turn"
  /\ UNCHANGED <<c2s, rounds, i, returned, cli_vars, env_vars, codec_vars, main_vars, table>>

\* play_one_round, lines 75-86: fresh deck, two cards each, and the three
\* NOT_OVER frames of the initial deal (player, player, dealer upcard)
ServerDeal ==
  /\ spc = "round"
  /\ i <= rounds
  /\ \E c1 \in create_deck : \E c2 \in create_deck \ {c1} :
     \E c3 \in create_deck \ {c1, c2} : \E c4 \in create_deck \ {c1, c2, c3} :
       /\ player' = <<c1, c2>>
       /\ dealer' = <<c3, c4>>
       /\ deck' = create_deck \ {c1, c2, c3, c4}
       /\ send_cards(<<>>, <<<<RESULT_NOT_OVER, c1>>, <<RESULT_NOT_OVER, c2>>,
                             <<RESULT_NOT_OVER, c3>>>>)
       /\ last_card_sent' = c3
  /\ spc' = "turn"
  /\ UNCHANGED <<c2s, rounds, i, returned, cli_vars, env_vars, codec_vars, main_vars, table>>

\* the bust branch returning without its result frame
ServerPlayerBust_Silent ==
  /\ spc = "turn"
  /\ PlayerBust(player)
  /\ last_card_sent' = Last(player)
  /\ ReturnResult(RESULT_LOSS)
  /\ UNCHANGED <<s2c, c2s, rounds, deck, player, dealer, sent, cli_vars, env_vars,
                 codec_vars, main_vars, table>>

\* lines 90-95: the player hand is above 21
ServerPlayerBust ==
  /\ spc = "turn"
  /\ PlayerBust(player)
  /\ last_card_sent' = Last(player)
  /\ send_cards(sent, <<<<RESULT_LOSS, Last(player)>>>>)
  /\ ReturnResult(RESULT_LOSS)
  /\ UNCHANGED <<c2s, rounds, deck, player, dealer, cli_vars, env_vars, codec_vars, main_vars, table>>

\* the Hittt branch sending a bust card once, with LOSS, and returning
ServerHit_Once(card) ==
  /\ deck' = deck \ {card}
  /\ player' = Append(player, card)
  /\ last_card_sent' = card
  /\ IF hand_value(Append(player, card)) > 21
     THEN /\ send_cards(sent, <<<<RESULT_LOSS, card>>>>)
          /\ ReturnResult(RESULT_LOSS)
          /\ UNCHANGED <<rounds, dealer>>
     ELSE /\ send_cards(sent, <<<<RESULT_NOT_OVER, card>>>>)
          /\ UNCHANGED <<spc, rounds, i, dealer, returned>>

\* lines 106-112: the Hittt branch with card = deck.pop()
ServerHit(card) ==
  /\ deck' = deck \ {card}
  /\ player' = Append(player, card)
  /\ last_card_sent' = card
  /\ send_cards(sent, <<<<RESULT_NOT_OVER, card>>>>)
  /\ UNCHANGED <<spc, rounds, i, dealer, returned>>

\* lines 97-115 and 118-120: read one decision; Hittt draws a card and sends
\* it as NOT_OVER, Stand leaves the loop and reveals the hole card
ServerRecvDecision ==
  /\ spc = "turn"
  /\ ~PlayerBust(player)
  /\ CanRecv
  /\ Consume
  /\ LET data == recv_exact(CLIENT_PAYLOAD_SIZE)
         decision == IF data = None THEN None ELSE unpack_client_payload(data)
     IN  IF decision = None
         THEN ServerClose /\ UNCHANGED s2c
         ELSE IF decision = Hittt
         THEN \E card \in deck : ServerHit(card)
         ELSE /\ last_card_sent' = dealer[2]
              /\ send_cards(sent, <<<<RESULT_NOT_OVER, dealer[2]>>>>)
              /\ spc' = "dealer"
              /\ UNCHANGED <<rounds, i, deck, player, dealer, returned>>
  /\ UNCHANGED <<cli_vars, disc_k, req_rounds, codec_vars, main_vars, table>>

\* the dealer loop without the bust test of lines 129-132
ServerDealerDraw_NoBustTest ==
  /\ spc = "dealer"
  /\ DealerDraws(dealer)
  /\ \E card \in deck :
       /\ deck' = deck \ {card}
       /\ dealer' = Append(dealer, card)
       /\ last_card_sent' = card
       /\ send_cards(sent, <<<<RESULT_NOT_OVER, card>>>>)
       /\ UNCHANGED <<spc, i, returned>>
  /\ UNCHANGED <<c2s, rounds, player, cli_vars, env_vars, codec_vars, main_vars, table>>

\* lines 122-132: one pass of the dealer loop: draw, send as NOT_OVER, and
\* when the dealer is above 21 send the same card again with WIN and return
ServerDealerDraw ==
  /\ spc = "dealer"
  /\ DealerDraws(dealer)
  /\ \E card \in deck :
       /\ deck' = deck \ {card}
       /\ dealer' = Append(dealer, card)
       /\ last_card_sent' = card
       /\ IF hand_value(Append(dealer, card)) > 21
          THEN /\ send_cards(sent, <<<<RESULT_NOT_OVER, card>>, <<RESULT_WIN, card>>>>)
               /\ ReturnResult(RESULT_WIN)
          ELSE /\ send_cards(sent, <<<<RESULT_NOT_OVER, card>>>>)
               /\ UNCHANGED <<spc, i, returned>>
  /\ UNCHANGED <<c2s, rounds, player, cli_vars, env_vars, codec_vars, main_vars, table>>

\* lines 134-151: the loop has exited; decide the winner and send the result
\* on the last card sent
ServerResolve ==
  /\ spc = "dealer"
  /\ ~DealerDraws(dealer)
  /\ LET result == DecideWinner(hand_value(player), hand_value(dealer))
     IN  /\ send_cards(sent, <<<<result, last_card_sent>>>>)
         /\ ReturnResult(result)
  /\ UNCHANGED <<c2s, rounds, deck, player, dealer, last_card_sent, cli_vars, env_vars,
                 codec_vars, main_vars, table>>

\* lines 171-185: all rounds played, the finally clause closes the connection
ServerFinish ==
  /\ spc = "round"
  /\ i > rounds
  /\ ServerClose
  /\ UNCHANGED <<s2c, c2s, cli_vars, env_vars, codec_vars, main_vars, table>>

\* the counter chain testing RESULT_TIE where it should test RESULT_LOSS
TallyOf_Mixed(result) ==
  IF result = RESULT_WIN THEN "wins"
  ELSE IF result = RESULT_TIE THEN "losses"
  ELSE "ties"

\* client.py:110-115 (and 139-144, 158-163): which counter a result bumps
TallyOf(result) ==
  IF result = RESULT_WIN THEN "wins"
  ELSE IF result = RESULT_LOSS THEN "losses"
  ELSE "ties"

\* the three counters after a terminal result, and the end of the round
\* (round_done = True; break; next iteration of the for loop)
RoundDone(result) ==
  /\ wins' = wins + (IF TallyOf(result) = "wins" THEN 1 ELSE 0)
  /\ losses' = losses + (IF TallyOf(result) = "losses" THEN 1 ELSE 0)
  /\ ties' = ties + (IF TallyOf(result) = "ties" THEN 1 ELSE 0)
  /\ r' = r + 1
  /\ cpc' = "round"

\* the except / finally clauses of client main: report, tcp.close(); the
\* locals of play_session are gone with its frame
ClientFail ==
  /\ cpc' = "failed"
  /\ num_rounds' = 0 /\ r' = 0
  /\ player_cards' = <<>> /\ dealer_cards' = <<>>
  /\ wins' = 0 /\ losses' = 0 /\ ties' = 0

\* an exception that main's except clause (OSError, ValueError,
\* ConnectionError) does not name: the finally clause closes the socket
\* and the exception leaves the while loop and main
ClientCrash ==
  /\ cpc' = "crashed"
  /\ num_rounds' = 0 /\ r' = 0
  /\ player_cards' = <<>> /\ dealer_cards' = <<>>
  /\ wins' = 0 /\ losses' = 0 /\ ties' = 0

\* _read_one_server_payload on the next frame of the stream
read_one_server_payload == unpack_server_payload(Head(s2c).data)

\* the local bust test with the threshold one too high
LocalBust_Late(cards) == hand_value(cards) > 22

\* client.py:103, the local bust test
LocalBust(cards) == hand_value(cards) > 21

\* main, lines 197-208: ask_rounds, connect, send the Request, enter
\* play_session (wins = losses = ties = 0)
ClientConnect ==
  /\ cpc = "listen"
  /\ \E n \in 1..MaxRounds :
       /\ num_rounds' = n
       /\ c2s' = Append(c2s, [data |-> pack_request(n, CLIENT_NAME), rnd |-> 0,
                              bad |-> FALSE])
  /\ wins' = 0 /\ losses' = 0 /\ ties' = 0
  /\ r' = 1
  /\ cpc' = "round"
  /\ UNCHANGED <<s2c, player_cards, dealer_cards, srv_vars, env_vars, codec_vars, main_vars, table>>

\* play_session, lines 74-78: next iteration of the for loop
ClientStartRound ==
  /\ cpc = "round"
  /\ r <= num_rounds
  /\ player_cards' = <<>>
  /\ dealer_cards' = <<>>
  /\ cpc' = "deal"
  /\ UNCHANGED <<s2c, c2s, num_rounds, r, wins, losses, ties, srv_vars, env_vars,
                 codec_vars, main_vars, table>>

\* lines 168-170 and main's finally: summary, tcp.close(), back to listening
ClientFinish ==
  /\ cpc = "round"
  /\ r > num_rounds
  /\ cpc' = "finished"
  /\ UNCHANGED <<s2c, c2s, num_rounds, r, player_cards, dealer_cards, wins, losses,
                 ties, srv_vars, env_vars, codec_vars, main_vars, table>>

\* lines 81-93: one of the three reads of the initial deal
ClientReadDeal ==
  /\ cpc = "deal"
  /\ s2c # <<>>
  /\ s2c' = Tail(s2c)
  /\ LET parsed == read_one_server_payload
         card == <<parsed[2], parsed[3]>>
         pc2 == IF Len(player_cards) < 2 THEN Append(player_cards, card)
                ELSE player_cards
         dc2 == IF Len(player_cards) < 2 THEN dealer_cards
                ELSE Append(dealer_cards, card)
     IN  IF parsed = None
         THEN ClientFail
         ELSE IF card_to_string(card) = IndexError
         THEN ClientCrash
         ELSE IF parsed[1] # RESULT_NOT_OVER
         THEN ClientFail
         ELSE /\ player_cards' = pc2
              /\ dealer_cards' = dc2
              /\ cpc' = (IF Len(pc2) + Len(dc2) = 3 THEN "turn" ELSE "deal")
              /\ UNCHANGED <<num_rounds, r, wins, losses, ties>>
  /\ UNCHANGED <<c2s, srv_vars, env_vars, codec_vars, main_vars, table>>

\* lines 103-118: local bust, read frames until one carries a result
ClientDrainRead ==
  /\ \/ cpc = "turn" /\ LocalBust(player_cards)
     \/ cpc = "drain"
  /\ s2c # <<>>
  /\ s2c' = Tail(s2c)
  /\ LET parsed == read_one_server_payload
     IN  IF parsed = None
         THEN ClientFail
         ELSE IF parsed[1] # RESULT_NOT_OVER
         THEN /\ RoundDone(parsed[1])
              /\ UNCHANGED <<num_rounds, player_cards, dealer_cards>>
         ELSE /\ cpc' = "drain"
              /\ UNCHANGED <<num_rounds, r, player_cards, dealer_cards, wins, losses,
                             ties>>
  /\ UNCHANGED <<c2s, srv_vars, env_vars, codec_vars, main_vars, table>>

\* the decision sent whatever the local total is
ClientDecide_AfterBust ==
  /\ cpc = "turn"
  /\ \E decision \in {Hittt, Stand} :
       /\ c2s' = Append(c2s, [data |-> pack_client_payload(decision), rnd |-> r,
                              bad |-> FALSE])
       /\ cpc' = (IF decision = Stand THEN "stand" ELSE "hit")
  /\ UNCHANGED <<s2c, num_rounds, r, player_cards, dealer_cards, wins, losses, ties,
                 srv_vars, env_vars, codec_vars, main_vars, table>>

\* lines 120-122: ask_decision and send it
ClientDecide ==
  /\ cpc = "turn"
  /\ ~LocalBust(player_cards)
  /\ \E decision \in {Hittt, Stand} :
       /\ c2s' = Append(c2s, [data |-> pack_client_payload(decision), rnd |-> r,
                              bad |-> FALSE])
       /\ cpc' = (IF decision = Stand THEN "stand" ELSE "hit")
  /\ UNCHANGED <<s2c, num_rounds, r, player_cards, dealer_cards, wins, losses, ties,
                 srv_vars, env_vars, codec_vars, main_vars, table>>

\* lines 124-147: after Stand, every frame is appended to dealer_cards
\* until one carries a result
ClientStandRead ==
  /\ cpc = "stand"
  /\ s2c # <<>>
  /\ s2c' = Tail(s2c)
  /\ LET parsed == read_one_server_payload
     IN  IF parsed = None
         THEN ClientFail
         ELSE IF card_to_string(<<parsed[2], parsed[3]>>) = IndexError
         THEN ClientCrash
         ELSE /\ dealer_cards' = Append(dealer_cards, <<parsed[2], parsed[3]>>)
              /\ IF parsed[1] # RESULT_NOT_OVER
                 THEN RoundDone(parsed[1])
                 ELSE UNCHANGED <<cpc, r, wins, losses, ties>>
              /\ UNCHANGED <<num_rounds, player_cards>>
  /\ UNCHANGED <<c2s, srv_vars, env_vars, codec_vars, main_vars, table>>

\* lines 149-166: after Hittt, one frame is appended to player_cards
ClientHitRead ==
  /\ cpc = "hit"
  /\ s2c # <<>>
  /\ s2c' = Tail(s2c)
  /\ LET parsed == read_one_server_payload
     IN  IF parsed = None
         THEN ClientFail
         ELSE IF card_to_string(<<parsed[2], parsed[3]>>) = IndexError
         THEN ClientCrash
         ELSE /\ player_cards' = Append(player_cards, <<parsed[2], parsed[3]>>)
              /\ IF parsed[1] # RESULT_NOT_OVER
                 THEN RoundDone(parsed[1])
                 ELSE /\ cpc' = "turn"
                      /\ UNCHANGED <<r, wins, losses, ties>>
              /\ UNCHANGED <<num_rounds, dealer_cards>>
  /\ UNCHANGED <<c2s, srv_vars, env_vars, codec_vars, main_vars, table>>

(***************************************************************************)
(* Connection failures                                                     *)
(***************************************************************************)
\* frames that fail decoding, written in place of a Request or a decision:
\* a flipped cookie byte, a wrong type tag, and a short frame after which
\* the peer closes
BadRequests ==
  { [pack_request(1, CLIENT_NAME) EXCEPT ![1] = 170],
    [pack_request(1, CLIENT_NAME) EXCEPT ![5] = TYPE_PAYLOAD],
    Slice(pack_request(1, CLIENT_NAME), 0, REQUEST_SIZE - 1) }

\* the same for a ClientPayload, and a decision text that is neither word
BadPayloads ==
  { [pack_client_payload(Hittt) EXCEPT ![4] = 187],
    [pack_client_payload(Stand) EXCEPT ![5] = TYPE_REQUEST],
    [pack_client_payload(Hittt) EXCEPT ![10] = 33],
    Slice(pack_client_payload(Stand), 0, CLIENT_PAYLOAD_SIZE - 1) }

\* the peer goes away (process killed, cable pulled, read timeout on its
\* side): its socket closes at any point of the session
ClientDisconnect ==
  /\ client_open
  /\ server_open
  /\ ClientFail
  /\ s2c' = <<>>
  /\ disc_k' = (IF spc = "round" /\ i <= rounds /\ returned # <<>>
                THEN Len(returned) ELSE 0)
  /\ UNCHANGED <<c2s, srv_vars, read_failed, req_rounds, codec_vars, main_vars, table>>

\* a peer that does not follow the protocol: a malformed Request
PeerBadRequest ==
  /\ cpc = "listen"
  /\ \E b \in BadRequests :
       /\ c2s' = Append(c2s, [data |-> b, rnd |-> 0, bad |-> TRUE])
       /\ IF Len(b) < REQUEST_SIZE
          THEN ClientFail
          ELSE /\ cpc' = "round"
               /\ num_rounds' = 1
               /\ r' = 1
               /\ UNCHANGED <<player_cards, dealer_cards, wins, losses, ties>>
  /\ UNCHANGED <<s2c, srv_vars, env_vars, codec_vars, main_vars, table>>

\* a malformed ClientPayload when a decision is due
PeerBadPayload ==
  /\ cpc = "turn"
  /\ ~LocalBust(player_cards)
  /\ \E b \in BadPayloads :
       /\ c2s' = Append(c2s, [data |-> b, rnd |-> r, bad |-> TRUE])
       /\ IF Len(b) < CLIENT_PAYLOAD_SIZE
          THEN ClientFail
          ELSE /\ cpc' = "hit"
               /\ UNCHANGED <<num_rounds, r, player_cards, dealer_cards, wins, losses,
                              ties>>
  /\ UNCHANGED <<s2c, srv_vars, env_vars, codec_vars, main_vars, table>>

\* conn.settimeout(TCP_CLIENT_TIMEOUT): nothing arrives within the deadline
\* and recv raises socket.timeout
ServerTimeout ==
  /\ spc = "request" \/ (spc = "turn" /\ ~PlayerBust(player))
  /\ c2s = <<>>
  /\ client_open
  /\ ServerClose
  /\ read_failed' = TRUE
  /\ UNCHANGED <<s2c, c2s, cli_vars, disc_k, req_rounds, codec_vars, main_vars, table>>

\* sendall to a peer that has gone raises OSError (it may also succeed,
\* which is the ordinary send action)
ServerSendFails ==
  /\ \/ spc = "round" /\ i <= rounds
     \/ spc = "turn" /\ PlayerBust(player)
     \/ spc = "dealer"
  /\ cpc = "failed"
  /\ ServerClose
  /\ UNCHANGED <<s2c, c2s, cli_vars, env_vars, codec_vars, main_vars, table>>

\* the client reads after the server has closed: recv_exact returns None
\* and _read_one_server_payload raises ConnectionError
ClientReadClosed ==
  /\ cpc \in {"deal", "turn", "drain", "hit", "stand"}
  /\ cpc = "turn" => LocalBust(player_cards)
  /\ s2c = <<>>
  /\ ~server_open
  /\ ClientFail
  /\ UNCHANGED <<s2c, c2s, srv_vars, env_vars, codec_vars, main_vars, table>>

\* a peer whose Request carries 0 in the rounds field (ask_rounds of
\* client.py never returns it) and which then plays the one round the
\* server deals
PeerRequestZero ==
  /\ cpc = "listen"
  /\ c2s' = Append(c2s, [data |-> pack_request(0, CLIENT_NAME), rnd |-> 0,
                         bad |-> FALSE])
  /\ num_rounds' = 1
  /\ wins' = 0 /\ losses' = 0 /\ ties' = 0
  /\ r' = 1
  /\ cpc' = "round"
  /\ UNCHANGED <<s2c, player_cards, dealer_cards, srv_vars, env_vars, codec_vars, main_vars, table>>

(***************************************************************************)
(* server.py: main, the broadcaster thread and the handle_client threads   *)
(***************************************************************************)
\* "Blackijecky"
SERVER_NAME == <<66, 108, 97, 99, 107, 105, 106, 101, 99, 107, 121>>

\* tcp.getsockname()[1], the port the system picked
tcp_port == 40000

\* the connections main accepts
Conns == {"a", "b"}

\* no broadcaster thread yet
NoThread == [pc |-> "unstarted", msg |-> <<>>, ticks |-> 0, attempts |-> 0,
             last |-> "none", out |-> <<>>]

\* main runs; from line 189 to the print of line 195, which reads the name
\* ip: nothing in server.py binds it, and NameError leaves main before the
\* stop_event and the threads exist
MainRaises ==
  /\ mpc = "start"
  /\ mpc' = "raised"
  /\ UNCHANGED <<stop_event, bcast, worker, session_vars, codec_vars, table>>

\* lines 197-199 and 45-49: the Event, the broadcaster thread, its socket
\* and the Offer it packs once
MainStartBroadcaster ==
  /\ mpc = "spawn"
  /\ stop_event' = FALSE
  /\ bcast' = [NoThread EXCEPT !.pc = "loop", !.msg = pack_offer(tcp_port, SERVER_NAME)]
  /\ mpc' = "accept"
  /\ UNCHANGED <<worker, session_vars, codec_vars, table>>

\* lines 205-212: KeyboardInterrupt in accept; stop_event.set(), tcp.close().
\* The threads are daemons: the end of the process is the end of the run.
MainShutdown ==
  /\ mpc = "accept"
  /\ stop_event' = TRUE
  /\ mpc' = "down"
  /\ UNCHANGED <<bcast, worker, session_vars, codec_vars, table>>

\* line 51: the loop test finds the stop_event clear
BroadcastTick ==
  /\ bcast.pc = "loop"
  /\ ~stop_event
  /\ bcast.ticks < MaxTicks
  /\ bcast' = [bcast EXCEPT !.pc = "send", !.ticks = @ + 1]
  /\ UNCHANGED <<mpc, stop_event, worker, session_vars, codec_vars, table>>

\* lines 52-56: sendto delivers the datagram or raises OSError, which is
\* passed over
BroadcastSend ==
  /\ bcast.pc = "send"
  /\ \E ok \in BOOLEAN :
       bcast' = [bcast EXCEPT !.pc = "wait", !.attempts = @ + 1,
                              !.last = IF ok THEN "sent" ELSE "OSError",
                              !.out = IF ok THEN bcast.msg ELSE @]
  /\ UNCHANGED <<mpc, stop_event, worker, session_vars, codec_vars, table>>

\* line 57: stop_event.wait(1.0) returns, after a second or when set
BroadcastWait ==
  /\ bcast.pc = "wait"
  /\ bcast' = [bcast EXCEPT !.pc = "loop"]
  /\ UNCHANGED <<mpc, stop_event, worker, session_vars, codec_vars, table>>

\* lines 51 and 59: the loop test finds the stop_event set; udp.close()
BroadcastExit ==
  /\ bcast.pc = "loop"
  /\ stop_event
  /\ bcast' = [bcast EXCEPT !.pc = "done"]
  /\ UNCHANGED <<mpc, stop_event, worker, session_vars, codec_vars, table>>

\* random.shuffle leaves the deck in any order and deck.pop() takes its last
\* card.  Two orders of six cards, on which no round runs out of cards:
\* 3 3 against 10 K with 7 and Q to come, and 10 K against 3 3 with 7 and Q
\* to come
Shuffles ==
  { << <<12, 2>>, <<7, 3>>, <<13, 1>>, <<10, 0>>, <<3, 2>>, <<3, 0>> >>,
    << <<12, 2>>, <<7, 3>>, <<3, 2>>, <<3, 0>>, <<13, 1>>, <<10, 0>> >> }

\* what the peer of a connection may have written when the worker reads
\* its Request or a decision; <<>> is a peer that closed without writing
PeerRequests == {pack_request(1, CLIENT_NAME), <<>>} \cup BadRequests
PeerPayloads ==
  {pack_client_payload(Hittt), pack_client_payload(Stand), <<>>} \cup BadPayloads

\* recv_exact(conn, n) on a stream that holds data and then ends
RecvFrom(data, n) == IF Len(data) >= n THEN data ELSE None

Front(s) == SubSeq(s, 1, Len(s) - 1)

\* a handle_client thread that main has not started
NoWorker ==
  [pc |-> "unstarted", rounds |-> 0, i |-> 0, shuffle |-> <<>>, deck |-> <<>>,
   player |-> <<>>, dealer |-> <<>>, last_card_sent |-> NoCard, sent |-> <<>>,
   returned |-> <<>>, cause |-> "none"]

\* one deck for all the threads
deck_of_Global(c) == "a"

\* server.py:75, deck is a local of the play_one_round call of connection c
deck_of(c) == c

\* the frames list after send_card(conn, card, result_code)
Sent(w, card, result_code) == Append(w.sent, <<result_code, card[1], card[2]>>)

\* the except / finally clauses of handle_client for connection c
WorkerClose(c, why) ==
  worker' = [worker EXCEPT ![c].pc = "closed", ![c].cause = why]

\* lines 202-204: accept returns a connection and its thread is started
MainAccept(c) ==
  /\ mpc = "accept"
  /\ worker[c].pc = "unstarted"
  /\ worker' = [worker EXCEPT ![c].pc = "request"]
  /\ UNCHANGED <<mpc, stop_event, bcast, session_vars, codec_vars, table>>

\* handle_client, lines 155-167, on connection c
WorkerRecvRequest(c) ==
  /\ worker[c].pc = "request"
  /\ \/ WorkerClose(c, "timeout")
     \/ \E data \in PeerRequests :
          LET req == RecvFrom(data, REQUEST_SIZE)
              parsed == IF req = None THEN None ELSE unpack_request(req)
          IN  IF parsed = None
              THEN WorkerClose(c, "request")
              ELSE worker' = [worker EXCEPT ![c].pc = "round",
                                            ![c].rounds = ClampRounds(parsed[1]),
                                            ![c].i = 1]
  /\ UNCHANGED <<mpc, stop_event, bcast, session_vars, codec_vars, table>>

\* play_one_round, lines 75-86, on connection c
WorkerDeal(c) ==
  /\ worker[c].pc = "round"
  /\ worker[c].i <= worker[c].rounds
  /\ \E d \in Shuffles :
       LET n == Len(d)
           w0 == [worker[c] EXCEPT !.sent = <<>>]
           w1 == [w0 EXCEPT !.sent = Sent(w0, d[n], RESULT_NOT_OVER)]
           w2 == [w1 EXCEPT !.sent = Sent(w1, d[n - 1], RESULT_NOT_OVER)]
           w3 == [w2 EXCEPT !.sent = Sent(w2, d[n - 2], RESULT_NOT_OVER)]
           dealt == [worker EXCEPT ![c] =
                       [w3 EXCEPT !.pc = "turn", !.shuffle = d,
                                  !.player = <<d[n], d[n - 1]>>,
                                  !.dealer = <<d[n - 2], d[n - 3]>>,
                                  !.last_card_sent = d[n - 2]]]
       IN  worker' = [dealt EXCEPT ![deck_of(c)].deck = SubSeq(d, 1, n - 4)]
  /\ UNCHANGED <<mpc, stop_event, bcast, session_vars, codec_vars, table>>

\* the return of play_one_round into the for loop
WorkerReturn(w, result) ==
  [w EXCEPT !.returned = Append(@, result), !.i = @ + 1, !.pc = "round"]

\* lines 90-95 on connection c
WorkerPlayerBust(c) ==
  /\ worker[c].pc = "turn"
  /\ PlayerBust(worker[c].player)
  /\ LET w == worker[c]
         card == Last(w.player)
     IN  worker' = [worker EXCEPT ![c] =
                      WorkerReturn([w EXCEPT !.last_card_sent = card,
                                             !.sent = Sent(w, card, RESULT_LOSS)],
                                   RESULT_LOSS)]
  /\ UNCHANGED <<mpc, stop_event, bcast, session_vars, codec_vars, table>>

\* lines 97-115 and 118-120 on connection c
WorkerRecvDecision(c) ==
  /\ worker[c].pc = "turn"
  /\ ~PlayerBust(worker[c].player)
  /\ \/ WorkerClose(c, "timeout")
     \/ \E bytes \in PeerPayloads :
          LET w == worker[c]
              data == RecvFrom(bytes, CLIENT_PAYLOAD_SIZE)
              decision == IF data = None THEN None ELSE unpack_client_payload(data)
              card == Last(worker[deck_of(c)].deck)
              hit == [worker EXCEPT ![c] =
                        [w EXCEPT !.player = Append(@, card),
                                  !.last_card_sent = card,
                                  !.sent = Sent(w, card, RESULT_NOT_OVER)]]
          IN  IF decision = None
              THEN WorkerClose(c, "ConnectionError")
              ELSE IF decision = Hittt
              THEN worker' = [hit EXCEPT ![deck_of(c)].deck = Front(@)]
              ELSE worker' = [worker EXCEPT ![c] =
                                [w EXCEPT !.pc = "dealer",
                                          !.last_card_sent = w.dealer[2],
                                          !.sent = Sent(w, w.dealer[2], RESULT_NOT_OVER)]]
  /\ UNCHANGED <<mpc, stop_event, bcast, session_vars, codec_vars, table>>

\* lines 122-132 on connection c: one pass of the dealer loop
WorkerDealerDraw(c) ==
  /\ worker[c].pc = "dealer"
  /\ DealerDraws(worker[c].dealer)
  /\ LET w == worker[c]
         card == Last(worker[deck_of(c)].deck)
         w1 == [w EXCEPT !.dealer = Append(@, card),
                         !.last_card_sent = card,
                         !.sent = Sent(w, card, RESULT_NOT_OVER)]
         w2 == IF hand_value(w1.dealer) > 21
               THEN WorkerReturn([w1 EXCEPT !.sent = Sent(w1, card, RESULT_WIN)],
                                 RESULT_WIN)
               ELSE w1
         drawn == [worker EXCEPT ![c] = w2]
     IN  worker' = [drawn EXCEPT ![deck_of(c)].deck = Front(@)]
  /\ UNCHANGED <<mpc, stop_event, bcast, session_vars, codec_vars, table>>

\* lines 134-151 on connection c
WorkerResolve(c) ==
  /\ worker[c].pc = "dealer"
  /\ ~DealerDraws(worker[c].dealer)
  /\ LET w == worker[c]
         result == DecideWinner(hand_value(w.player), hand_value(w.dealer))
     IN  worker' = [worker EXCEPT ![c] =
                      WorkerReturn([w EXCEPT !.sent = Sent(w, w.last_card_sent, result)],
                                   result)]
  /\ UNCHANGED <<mpc, stop_event, bcast, session_vars, codec_vars, table>>

\* lines 171-185 on connection c: all rounds played
WorkerFinish(c) ==
  /\ worker[c].pc = "round"
  /\ worker[c].i > worker[c].rounds
  /\ WorkerClose(c, "finished")
  /\ UNCHANGED <<mpc, stop_event, bcast, session_vars, codec_vars, table>>

(***************************************************************************)
(* play_one_round on the deck of 52 cards.  Which card a pop yields        *)
(* matters to the round only by card_value, and hand_value is the sum of   *)
(* the card values: the deck is kept as the number of cards popped of each *)
(* value and the hands as their values.  The peer sends any decision.      *)
(***************************************************************************)
\* create_deck with the rank loop running over two ranks
FullDeck_TwoRanks == (2..3) \X (0..3)

\* game.py:12-14, the cards create_deck appends
FullDeck == (1..13) \X (0..3)

\* the values of the cards and the number of cards of each value
Values == {card_value(c[1]) : c \in FullDeck}
Copies == [v \in Values |-> Cardinality({c \in FullDeck : card_value(c[1]) = v})]

\* before create_deck
NoTable == [pc |-> "off", used |-> [v \in Values |-> 0], n |-> 0, ps |-> 0, ds |-> 0]

\* the values deck.pop() may yield: those with a card left
Left(t) == {v \in Values : t.used[v] < Copies[v]}

\* the table after deck.pop() has yielded a card of value v
Popped(t, v) == [t EXCEPT !.used[v] = @ + 1, !.n = @ + 1]

\* lines 75-86: the four pops of the initial deal
TableDeal ==
  /\ table.pc = "deal"
  /\ \E p1 \in Left(table) :
       LET t1 == Popped(table, p1)
       IN  \E p2 \in Left(t1) :
             LET t2 == Popped(t1, p2)
             IN  \E d1 \in Left(t2) :
                   LET t3 == Popped(t2, d1)
                   IN  \E d2 \in Left(t3) :
                         table' = [Popped(t3, d2) EXCEPT !.pc = "turn",
                                                         !.ps = p1 + p2,
                                                         !.ds = d1 + d2]
  /\ UNCHANGED <<session_vars, codec_vars, main_vars>>

\* lines 90-95: the player is above 21
TableBust ==
  /\ table.pc = "turn"
  /\ table.ps > 21
  /\ table' = [table EXCEPT !.pc = "returned"]
  /\ UNCHANGED <<session_vars, codec_vars, main_vars>>

\* lines 97-112: the decision is Hittt; list.pop() on an empty list raises
\* IndexError (no except clause of handle_client names it)
TableHit ==
  /\ table.pc = "turn"
  /\ table.ps <= 21
  /\ IF Left(table) = {}
     THEN table' = [table EXCEPT !.pc = IndexError]
     ELSE \E v \in Left(table) :
            table' = [Popped(table, v) EXCEPT !.ps = @ + v]
  /\ UNCHANGED <<session_vars, codec_vars, main_vars>>

\* lines 97-120: the decision is Stand
TableStand ==
  /\ table.pc = "turn"
  /\ table.ps <= 21
  /\ table' = [table EXCEPT !.pc = "dealer"]
  /\ UNCHANGED <<session_vars, codec_vars, main_vars>>

\* lines 122-132: one pass of the dealer loop
TableDealerDraw ==
  /\ table.pc = "dealer"
  /\ table.ds < 17
  /\ IF Left(table) = {}
     THEN table' = [table EXCEPT !.pc = IndexError]
     ELSE \E v \in Left(table) :
            table' = [Popped(table, v) EXCEPT
                        !.ds = @ + v,
                        !.pc = IF table.ds + v > 21 THEN "returned" ELSE "dealer"]
  /\ UNCHANGED <<session_vars, codec_vars, main_vars>>

\* lines 134-151: the dealer loop has exited
TableResolve ==
  /\ table.pc = "dealer"
  /\ table.ds >= 17
  /\ table' = [table EXCEPT !.pc = "returned"]
  /\ UNCHANGED <<session_vars, codec_vars, main_vars>>

(***************************************************************************)
(* Specifications of the session                                           *)
(***************************************************************************)
CodecIdle ==
  /\ stage = "idle"
  /\ msg = None
  /\ buf = <<>>
  /\ out = <<>>

SessionInit ==
  /\ s2c = <<>> /\ c2s = <<>>
  /\ spc = "request" /\ rounds = 0 /\ i = 0
  /\ deck = {} /\ player = <<>> /\ dealer = <<>> /\ last_card_sent = NoCard
  /\ sent = <<>> /\ returned = <<>>
  /\ cpc = "listen" /\ num_rounds = 0 /\ r = 0
  /\ player_cards = <<>> /\ dealer_cards = <<>>
  /\ wins = 0 /\ losses = 0 /\ ties = 0
  /\ read_failed = FALSE /\ disc_k = 0 /\ req_rounds = -1

\* server main is not running
MainIdle ==
  /\ mpc = "off"
  /\ stop_event = FALSE
  /\ bcast = NoThread
  /\ worker = [c \in Conns |-> NoWorker]
  /\ table = NoTable

Init == SessionInit /\ CodecIdle /\ MainIdle

ServerStep ==
  \/ ServerRecvRequest
  \/ ServerDeal
  \/ ServerPlayerBust
  \/ ServerRecvDecision
  \/ ServerDealerDraw
  \/ ServerResolve
  \/ ServerFinish

ClientStep ==
  \/ ClientConnect
  \/ ClientStartRound
  \/ ClientFinish
  \/ ClientReadDeal
  \/ ClientDrainRead
  \/ ClientDecide
  \/ ClientStandRead
  \/ ClientHitRead

Failure ==
  \/ ClientDisconnect
  \/ PeerBadRequest
  \/ PeerBadPayload
  \/ ServerTimeout
  \/ ServerSendFails
  \/ ClientReadClosed

\* a session on a connection that does not fail
Next == ServerStep \/ ClientStep

Spec == Init /\ [][Next]_vars

\* the same with a Request of any rounds field from 0 on
NextZ == ServerStep \/ ClientStep \/ PeerRequestZero

SpecZ == Init /\ [][NextZ]_vars

\* the same session with both sides scheduled: each thread of control
\* takes its next step when it has one (a decision prompt is answered)
SpecLive == Init /\ [][Next]_vars /\ WF_vars(ServerStep) /\ WF_vars(ClientStep)

\* a session on a connection that may fail
NextF == ServerStep \/ ClientStep \/ Failure

SpecF == Init /\ [][NextF]_vars

(***************************************************************************)
(* The codec on its own: a message is packed, the buffer is optionally     *)
(* damaged, and the decoder of the message's type is applied.              *)
(***************************************************************************)
\* a name of len code points with a NUL at position z and U+00E9 (two
\* bytes in UTF-8) at position u, where these positions exist
NameOf(len, z, u) ==
  [k \in 1..len |-> IF k = z THEN 0 ELSE IF k = u THEN 233 ELSE 65 + (k % 26)]

Names ==
  {NameOf(len, z, u) : len \in {0, 1, 18, NAME_LEN - 1, NAME_LEN, NAME_LEN + 1, MaxNameLen},
                       z \in {0, 1, 5, NAME_LEN, NAME_LEN + 1},
                       u \in {0, 2, NAME_LEN}}

Message(kind, num, rank, suit, text) ==
  [kind |-> kind, num |-> num, rank |-> rank, suit |-> suit, text |-> text]

Messages ==
  {Message("offer", port, 0, 0, name) : port \in {0, 1, 13122, 65535}, name \in Names}
  \cup {Message("request", n, 0, 0, name) : n \in {1, 2, 255}, name \in Names}
  \cup {Message("client", 0, 0, 0, d) : d \in {Hittt, Stand}}
  \cup {Message("server", res, rank, suit, <<>>) :
          res \in {RESULT_NOT_OVER, RESULT_TIE, RESULT_LOSS, RESULT_WIN},
          rank \in {1, 10, 13}, suit \in {0, 3}}

\* encode(m)
Pack(m) ==
  CASE m.kind = "offer" -> pack_offer(m.num, m.text)
    [] m.kind = "request" -> pack_request(m.num, m.text)
    [] m.kind = "client" -> pack_client_payload(m.text)
    [] m.kind = "server" -> pack_server_payload(m.num, m.rank, m.suit)

\* decode(bytes) with the decoder of the expected type
Unpack(kind, data) ==
  CASE kind = "offer" -> unpack_offer(data)
    [] kind = "request" -> unpack_request(data)
    [] kind = "client" -> unpack_client_payload(data)
    [] kind = "server" -> unpack_server_payload(data)

\* the value the decoder returns for an undamaged message m when the round
\* trip is the identity
Fields(m) ==
  CASE m.kind = "offer" -> <<m.num, m.text>>
    [] m.kind = "request" -> <<m.num, m.text>>
    [] m.kind = "client" -> m.text
    [] m.kind = "server" -> <<m.num, m.rank, m.suit>>

TagOf(kind) ==
  CASE kind = "offer" -> TYPE_OFFER
    [] kind = "request" -> TYPE_REQUEST
    [] kind = "client" -> TYPE_PAYLOAD
    [] kind = "server" -> TYPE_PAYLOAD

InitCodec ==
  /\ SessionInit
  /\ MainIdle
  /\ stage = "input"
  /\ msg \in Messages
  /\ buf = <<>>
  /\ out = <<>>

Encode ==
  /\ stage = "input"
  /\ buf' = Pack(msg)
  /\ stage' = "encoded"
  /\ UNCHANGED <<msg, out, session_vars, main_vars, table>>

\* one byte of the magic cookie is changed
FlipCookie ==
  /\ stage = "encoded"
  /\ out = <<>>
  /\ \E k \in 1..4 : \E v \in {0, (buf[k] + 1) % 256, 255 - buf[k]} :
       buf' = [buf EXCEPT ![k] = v]
  /\ stage' = "flipped"
  /\ UNCHANGED <<msg, out, session_vars, main_vars, table>>

\* the type tag is replaced by another one
Retag ==
  /\ stage = "encoded"
  /\ out = <<>>
  /\ \E t \in (0..MaxTag) \ {TagOf(msg.kind)} : buf' = [buf EXCEPT ![5] = t]
  /\ stage' = "retagged"
  /\ UNCHANGED <<msg, out, session_vars, main_vars, table>>

\* the buffer is cut short
Truncate ==
  /\ stage = "encoded"
  /\ out = <<>>
  /\ \E n \in 0..(Len(buf) - 1) : buf' = Slice(buf, 0, n)
  /\ stage' = "short"
  /\ UNCHANGED <<msg, out, session_vars, main_vars, table>>

\* the decoder's return value, wrapped in a 1-tuple
Decode ==
  /\ stage \in {"encoded", "flipped", "retagged", "short"}
  /\ out = <<>>
  /\ out' = <<Unpack(msg.kind, buf)>>
  /\ UNCHANGED <<stage, msg, buf, session_vars, main_vars, table>>

NextCodec == Encode \/ FlipCookie \/ Retag \/ Truncate \/ Decode

SpecCodec == InitCodec /\ [][NextCodec]_vars

(***************************************************************************)
(* The client against any server: the frames it reads carry any result,    *)
(* rank and suit, or fail decoding, and a read may end at the deadline or  *)
(* at the end of the stream.                                               *)
(***************************************************************************)
\* field values of the frames: the four results and one that is none of
\* them, ranks and suits inside and outside the ranges of a card
AnyResults == {RESULT_NOT_OVER, RESULT_TIE, RESULT_LOSS, RESULT_WIN, 255}
AnyRanks == {10, 65535}
AnySuits == {3, 4}

\* frames of nine bytes or less that fail decoding
BadServerPayloads ==
  { [pack_server_payload(RESULT_NOT_OVER, 10, 0) EXCEPT ![2] = 0],
    [pack_server_payload(RESULT_NOT_OVER, 10, 0) EXCEPT ![5] = TYPE_OFFER],
    Slice(pack_server_payload(RESULT_WIN, 10, 0), 0, SERVER_PAYLOAD_SIZE - 1) }

\* the client is in a read of _read_one_server_payload
ClientReading ==
  \/ cpc \in {"deal", "drain", "hit", "stand"}
  \/ cpc = "turn" /\ LocalBust(player_cards)

\* a ServerPayload with valid cookie and type arrives
AnyServerPayload ==
  /\ ClientReading
  /\ s2c = <<>>
  /\ Len(sent) < MaxFrames
  /\ \E res \in AnyResults : \E rank \in AnyRanks : \E suit \in AnySuits :
       /\ s2c' = <<[data |-> pack_server_payload(res, rank, suit), rnd |-> r,
                    bad |-> FALSE]>>
       /\ sent' = Append(sent, <<res, rank, suit>>)
  /\ UNCHANGED <<c2s, spc, rounds, i, deck, player, dealer, last_card_sent, returned,
                 cli_vars, env_vars, codec_vars, main_vars, table>>

\* a frame that fails decoding arrives
BadServerPayload ==
  /\ ClientReading
  /\ s2c = <<>>
  /\ Len(sent) < MaxFrames
  /\ \E b \in BadServerPayloads :
       /\ s2c' = <<[data |-> b, rnd |-> r, bad |-> TRUE]>>
       /\ sent' = Append(sent, <<255, 0, 0>>)
  /\ UNCHANGED <<c2s, spc, rounds, i, deck, player, dealer, last_card_sent, returned,
                 cli_vars, env_vars, codec_vars, main_vars, table>>

\* tcp.settimeout(TCP_READ_TIMEOUT): recv raises socket.timeout, or returns
\* no bytes because the server closed; both are caught in main
ClientReadFails ==
  /\ ClientReading
  /\ s2c = <<>>
  /\ ClientFail
  /\ UNCHANGED <<s2c, c2s, srv_vars, env_vars, codec_vars, main_vars, table>>

NextClient ==
  \/ ClientStep
  \/ AnyServerPayload
  \/ BadServerPayload
  \/ ClientReadFails

SpecClient == Init /\ [][NextClient]_vars

(***************************************************************************)
(* The server process: main from its first line, and main from line 197,   *)
(* where it creates the stop_event and starts the threads.  No run from    *)
(* the first line gets that far; the second entry runs the broadcaster and *)
(* the workers as line 198 and line 204 start them.                        *)
(***************************************************************************)
InitServer ==
  /\ SessionInit
  /\ CodecIdle
  /\ mpc \in {"start", "spawn"}
  /\ stop_event = FALSE
  /\ bcast = NoThread
  /\ worker = [c \in Conns |-> NoWorker]
  /\ table = NoTable

MainStep == MainRaises \/ MainStartBroadcaster \/ MainShutdown \/ \E c \in Conns : MainAccept(c)

BroadcastStep == BroadcastTick \/ BroadcastSend \/ BroadcastWait \/ BroadcastExit

WorkerStep(c) ==
  \/ WorkerRecvRequest(c)
  \/ WorkerDeal(c)
  \/ WorkerPlayerBust(c)
  \/ WorkerRecvDecision(c)
  \/ WorkerDealerDraw(c)
  \/ WorkerResolve(c)
  \/ WorkerFinish(c)

NextServer == MainStep \/ BroadcastStep \/ \E c \in Conns : WorkerStep(c)

SpecServer == InitServer /\ [][NextServer]_vars

(***************************************************************************)
(* Properties                                                              *)
(***************************************************************************)
\* the recorded send_card calls end with a result
Terminal(calls) == calls # <<>> /\ Last(calls)[1] # RESULT_NOT_OVER

\* play_one_round has just returned: sent, player and dealer are those of
\* the finished round
RoundReturned == spc = "round" /\ returned # <<>>

Count(seq, v) == Cardinality({k \in 1..Len(seq) : seq[k] = v})

NonDecreasing(chan) == \A k \in 1..(Len(chan) - 1) : chan[k].rnd <= chan[k + 1].rnd

\* C1: on a connection that does not fail, the next frame the client reads
\* was written by the server in the client's current round and the next
\* frame the server reads was written by the client in the server's current
\* round, frames are queued in round order, and when both sides have
\* finished their n rounds nothing is left unread in either direction
C1_RoundsAligned ==
  /\ NonDecreasing(s2c)
  /\ NonDecreasing(c2s)
  /\ s2c # <<>> => /\ client_open
                   /\ r <= num_rounds
                   /\ Head(s2c).rnd = r
                   /\ Last(s2c).rnd <= i
  /\ (c2s # <<>> /\ spc # "request") => /\ Len(c2s) = 1
                                       /\ spc = "turn"
                                       /\ Head(c2s).rnd = i
                                       /\ Head(c2s).rnd = r
  /\ cpc = "finished" => /\ s2c = <<>> /\ c2s = <<>>
                         /\ rounds = num_rounds
                         /\ Len(returned) = num_rounds
  /\ spc = "closed" => c2s = <<>>

\* C1 witness: a session of two rounds has been played to the end
C1_Witness ==
  /\ cpc = "finished" /\ spc = "closed"
  /\ num_rounds >= 2
  /\ s2c = <<>> /\ c2s = <<>>

\* C2 as claimed: every frame with a result carries the card of the frame
\* sent immediately before it in the round
C2_ResultOnPreviousCard ==
  \A k \in 1..Len(sent) :
    sent[k][1] # RESULT_NOT_OVER =>
      /\ k > 1
      /\ <<sent[k][2], sent[k][3]>> = <<sent[k - 1][2], sent[k - 1][3]>>

\* the round ended by a bust on a card drawn for a Hittt; the frames sent
\* after that Hittt was received start at position Len(player) + 1
HitBustReturned ==
  /\ RoundReturned
  /\ Len(player) >= 3
  /\ hand_value(player) > 21

\* C3 as claimed: after the Hittt of a bust exactly one frame is sent, the
\* bust card with LOSS, and no NOT_OVER frame carries that card before it
C3_BustCardOnce ==
  HitBustReturned =>
    /\ Len(sent) = Len(player) + 1
    /\ Last(sent) = <<RESULT_LOSS, Last(player)[1], Last(player)[2]>>
    /\ \A k \in 1..(Len(sent) - 1) :
         sent[k] # <<RESULT_NOT_OVER, Last(player)[1], Last(player)[2]>>

\* C3 amended: after the Hittt of a bust exactly two frames are sent, both
\* with the bust card: first NOT_OVER, then LOSS
C3_BustCardTwice ==
  HitBustReturned =>
    /\ Len(sent) = Len(player) + 2
    /\ sent[Len(player) + 1] = <<RESULT_NOT_OVER, Last(player)[1], Last(player)[2]>>
    /\ sent[Len(player) + 2] = <<RESULT_LOSS, Last(player)[1], Last(player)[2]>>
    /\ Last(returned) = RESULT_LOSS

\* C3 witness: a round lost by a bust on a hit
C3_Witness == HitBustReturned /\ Terminal(sent)

\* C4 as claimed: once the peer has gone away between round k and round
\* k + 1, the record of send_card calls stays that of round k: no frame of
\* round k + 1 is sent
C4_NoNextRound ==
  disc_k > 0 => /\ Len(returned) = disc_k
                /\ i = disc_k + 1
                /\ Terminal(sent)

\* the hand value as the rules state it
RuleValue(hand) ==
  LET v(k) == IF hand[k][1] = 1 THEN 11
              ELSE IF hand[k][1] \in 11..13 THEN 10
              ELSE hand[k][1]
      sum[k \in 0..Len(hand)] == IF k = 0 THEN 0 ELSE sum[k - 1] + v(k)
  IN  sum[Len(hand)]

RuleOutcome(ps, ds) ==
  CASE ps > 21 -> RESULT_LOSS
    [] ps <= 21 /\ ds > 21 -> RESULT_WIN
    [] ps <= 21 /\ ds <= 21 /\ ps > ds -> RESULT_WIN
    [] ps <= 21 /\ ds <= 21 /\ ps < ds -> RESULT_LOSS
    [] ps <= 21 /\ ds <= 21 /\ ps = ds -> RESULT_TIE

\* C5: the result play_one_round returns is the one its last frame carries
\* and is the outcome the rules give for the final hands
C5_ResultByHandValues ==
  RoundReturned =>
    /\ Terminal(sent)
    /\ Last(sent)[1] = Last(returned)
    /\ Last(returned) = RuleOutcome(RuleValue(player), RuleValue(dealer))

\* C5 witness: a round in which both stood on equal values
C5_Witness ==
  /\ RoundReturned
  /\ Last(returned) = RESULT_TIE
  /\ RuleValue(player) = RuleValue(dealer)

\* C6: every dealer card after the hole card was drawn on a value below 17,
\* and a round that went through the dealer turn ends on a value of 17 or
\* more
C6_DealerDrawsBelow17 ==
  /\ \A k \in 2..(Len(dealer) - 1) : RuleValue(SubSeq(dealer, 1, k)) < 17
  /\ (RoundReturned /\ RuleValue(player) <= 21) => RuleValue(dealer) >= 17

\* C6 witness: the dealer drew and stopped between 17 and 21
C6_Witness ==
  /\ RoundReturned
  /\ Len(dealer) >= 3
  /\ RuleValue(dealer) \in 17..21

\* the name survives _pack_name: its UTF-8 form has at most NAME_LEN bytes
\* and no zero byte
NameFits(name) ==
  /\ Len(Utf8Encode(name)) <= NAME_LEN
  /\ \A k \in 1..Len(Utf8Encode(name)) : Utf8Encode(name)[k] # 0

\* C7 as claimed: decoding the encoding returns the message, for every name
C7_RoundTripAll ==
  (stage = "encoded" /\ out # <<>>) => out[1] = Fields(msg)

\* C7 amended: decoding the encoding returns the message when the name's
\* UTF-8 form has at most 32 bytes and no zero byte
C7_RoundTripFitting ==
  (stage = "encoded" /\ out # <<>> /\ NameFits(msg.text)) => out[1] = Fields(msg)

\* C7 witness: a Request whose name fills the 32 bytes, two of them by one
\* character, has come back unchanged
C7_Witness ==
  /\ stage = "encoded" /\ out # <<>>
  /\ msg.kind = "request"
  /\ Len(msg.text) = NAME_LEN - 1
  /\ Len(Utf8Encode(msg.text)) = NAME_LEN
  /\ out[1] = Fields(msg)

\* C8: a buffer with a changed cookie byte, a foreign type tag or less than
\* the fixed length decodes to None, with each of the four decoders
C8_DamagedRejected ==
  (stage \in {"flipped", "retagged", "short"} /\ out # <<>>) => out[1] = None

\* C8 witness: an Offer whose only damage is one cookie byte was rejected
C8_Witness ==
  /\ stage = "flipped" /\ out = <<None>>
  /\ msg.kind = "offer"
  /\ Len(buf) = OFFER_SIZE
  /\ buf[5] = TYPE_OFFER

\* C9: once a read of the server has failed the connection is closed, and a
\* closed worker sends nothing, returns from no round and starts none
C9_ReadFailureCloses ==
  /\ [](read_failed => spc = "closed")
  /\ [][spc = "closed" => /\ spc' = "closed"
                          /\ sent' = sent /\ returned' = returned /\ i' = i
                          /\ Len(s2c') <= Len(s2c)]_vars

\* C9 witness: a session of two rounds closed on a failed read before its
\* first round had returned
C9_Witness ==
  /\ read_failed /\ spc = "closed"
  /\ rounds = 2 /\ returned = <<>> /\ sent # <<>>

\* C10: after k rounds completed by the client its three counters add up to
\* k and each equals the number of the server's first k results of its kind
C10_TallyMatchesServer ==
  (client_open \/ cpc = "finished") =>
    /\ wins + losses + ties = r - 1
    /\ Len(returned) >= r - 1
    /\ wins = Count(SubSeq(returned, 1, r - 1), RESULT_WIN)
    /\ losses = Count(SubSeq(returned, 1, r - 1), RESULT_LOSS)
    /\ ties = Count(SubSeq(returned, 1, r - 1), RESULT_TIE)

\* C10 witness: two rounds completed, one lost and one tied
C10_Witness ==
  /\ cpc = "finished"
  /\ losses = 1 /\ ties = 1 /\ wins = 0

\* C11: on a connection that does not fail, the client sends a decision only
\* at its turn, with a local player hand equal to the server's player hand
\* and worth at most 21, and a decision that is still unread finds the
\* server at its turn of the same round with a hand of at most 21: none is
\* left over when a round has ended
C11_DecidesOnServerHand ==
  /\ []((c2s # <<>> /\ spc # "request") =>
          /\ spc = "turn" /\ ~PlayerBust(player)
          /\ Len(c2s) = 1 /\ Head(c2s).rnd = i
          /\ cpc \in {"hit", "stand"})
  /\ [][(client_open /\ Len(c2s') > Len(c2s)) =>
          /\ cpc = "turn"
          /\ player_cards = player
          /\ RuleValue(player_cards) <= 21
          /\ spc = "turn" /\ i = r
          /\ c2s = <<>>]_vars

\* C11 witness: a second decision of a round is in flight, sent on a hand of
\* three cards
C11_Witness ==
  /\ c2s # <<>> /\ Head(c2s).rnd = r
  /\ cpc \in {"hit", "stand"}
  /\ Len(player_cards) = 3 /\ player_cards = player
  /\ RuleValue(player_cards) <= 21

Max(a, b) == IF a >= b THEN a ELSE b

\* C12: on a connection that does not fail, the worker leaves the Request
\* with rounds = max(1, field) and round 1 ahead; a round's frames begin
\* only when the round before has returned with a result frame sent last;
\* the worker never plays more rounds than that and closes the connection
\* only after exactly that many
C12_PlaysRequestedRounds ==
  /\ [][(spc = "request" /\ spc' # "request") =>
          /\ spc' = "round" /\ i' = 1 /\ returned' = <<>>
          /\ rounds' = Max(1, unpack_request(Head(c2s).data)[1])]_vars
  /\ [][(spc = "round" /\ spc' = "turn") =>
          /\ i <= rounds /\ i = Len(returned) + 1
          /\ returned # <<>> => Terminal(sent)
          /\ Len(sent') = 3]_vars
  /\ [][(spc # "closed" /\ spc' = "closed") =>
          /\ Len(returned) = rounds
          /\ rounds = Max(1, req_rounds)
          /\ returned' = returned]_vars
  /\ [](spc \in {"turn", "dealer"} =>
          /\ Len(returned) = i - 1
          /\ \A k \in 1..Len(sent) : sent[k][1] = RESULT_NOT_OVER)
  /\ [](spc # "request" => Len(returned) <= Max(1, req_rounds))

\* C12 witness: a Request with 0 in the rounds field was answered with one
\* round, and the connection is closed
C12_Witness ==
  /\ req_rounds = 0
  /\ spc = "closed"
  /\ Len(returned) = 1

\* the broadcaster loop: a pass that got to the wait has made its attempt,
\* every datagram is the one Offer, a failed send does not end the loop,
\* and the loop has ended only with the stop_event set
BroadcasterLoopOk ==
  /\ bcast.pc \in {"wait", "loop", "done"} => bcast.attempts = bcast.ticks
  /\ bcast.pc = "send" => bcast.attempts = bcast.ticks - 1
  /\ bcast.out \in {<<>>, pack_offer(tcp_port, SERVER_NAME)}
  /\ bcast.attempts > 0 => unpack_offer(bcast.msg) = <<tcp_port, SERVER_NAME>>
  /\ bcast.pc = "done" => stop_event
  /\ (bcast.last = "OSError" /\ ~stop_event) => bcast.pc # "done"

\* C13 as claimed: main has not ended before the broadcaster thread is
\* started, and the loop sends the same Offer on every pass, also after a
\* failed send, until the stop_event is set
C13_MainRunsBroadcaster ==
  /\ mpc = "raised" => bcast.pc # "unstarted"
  /\ BroadcasterLoopOk

\* the dealer loop has exited without returning: "Decide winner" is next
AtResolution == spc = "dealer" /\ ~DealerDraws(dealer)

\* C14 as claimed: at result resolution the dealer value is between 17 and
\* 21 and the player value is at most 21
C14_ResolutionWithin21 ==
  AtResolution => /\ RuleValue(dealer) \in 17..21
                  /\ RuleValue(player) <= 21

\* C14 amended: at result resolution the player value is at most 21 and the
\* dealer value is at least 17; it is above 21 only as the 22 of two Aces
\* dealt to the dealer, and that round is returned as WIN
C14_ResolutionDealerTwoAces ==
  /\ AtResolution =>
       /\ RuleValue(player) <= 21
       /\ RuleValue(dealer) >= 17
       /\ RuleValue(dealer) > 21 => /\ Len(dealer) = 2
                                    /\ dealer[1][1] = 1 /\ dealer[2][1] = 1
  /\ (RoundReturned /\ Len(dealer) = 2 /\ RuleValue(dealer) > 21
        /\ RuleValue(player) <= 21) =>
       /\ Last(returned) = RESULT_WIN
       /\ Last(sent) = <<RESULT_WIN, dealer[2][1], dealer[2][2]>>

\* C14 witness: resolution is reached with the dealer on two Aces
C14_Witness ==
  /\ AtResolution
  /\ RuleValue(dealer) = 22
  /\ RuleValue(player) <= 21

\* no send_card call of the round carries the dealer's second card
HoleUnsent == \A k \in 1..Len(sent) : <<sent[k][2], sent[k][3]>> # dealer[2]

\* C15: until the server has received Stand no frame of the round carries
\* the hole card; a round the player busts is returned as LOSS with the
\* dealer still on two cards and the hole card never sent; after Stand the
\* hole card is the first frame
C15_HoleCardHidden ==
  /\ spc = "turn" => (Len(dealer) = 2 /\ HoleUnsent)
  /\ (RoundReturned /\ RuleValue(player) > 21) =>
       /\ Len(dealer) = 2
       /\ HoleUnsent
       /\ Last(returned) = RESULT_LOSS
       /\ Last(sent)[1] = RESULT_LOSS
  /\ spc = "dealer" =>
       sent[Len(player) + 2] = <<RESULT_NOT_OVER, dealer[2][1], dealer[2][2]>>

\* C15 witness: a round lost on a hit, the hole card never sent
C15_Witness ==
  /\ RoundReturned
  /\ Len(player) = 3 /\ RuleValue(player) > 21
  /\ Len(dealer) = 2 /\ HoleUnsent
  /\ Len(sent) = 5

\* the client has completed a round and the server still holds the hands
\* of that round
ClientRoundEnded ==
  /\ cpc \in {"round", "finished"}
  /\ r > 1
  /\ Len(returned) = r - 1
  /\ spc \in {"round", "closed"}

\* C16 as claimed: the card of a frame with a result is not added to a
\* hand again: at the end of a round the client's player_cards are the
\* server's player hand and its dealer_cards are the server's dealer hand
\* (of a round the player busted, where the hole card is never sent, the
\* upcard)
C16_ClientHandsEqualServer ==
  ClientRoundEnded =>
    /\ player_cards = player
    /\ dealer_cards = (IF RuleValue(player) > 21 THEN <<dealer[1]>> ELSE dealer)

\* C17 as claimed: whatever the frames carry and however a read fails, the
\* client is listening, in a session, or back in the listening loop after
\* a session that failed or finished; it never leaves the loop
C17_ClientKeepsListening ==
  cpc \in {"listen", "failed", "finished"} \cup ClientPcs

Reverse(s) == [k \in 1..Len(s) |-> s[Len(s) + 1 - k]]

\* the cards a round has popped, in the order of the pops: two for the
\* player, two for the dealer, the player's hits, the dealer's draws
Drawn(w) ==
  IF w.player = <<>> THEN <<>>
  ELSE <<w.player[1], w.player[2], w.dealer[1], w.dealer[2]>>
         \o SubSeq(w.player, 3, Len(w.player)) \o SubSeq(w.dealer, 3, Len(w.dealer))

\* the deck of connection c is what is left of the deck its round shuffled
OwnDeck(c) ==
  LET w == worker[c]
  IN  /\ w.deck \o Reverse(Drawn(w)) = w.shuffle
      /\ \A k \in 1..Len(w.sent) :
           \E j \in 1..Len(Drawn(w)) : Drawn(w)[j] = <<w.sent[k][2], w.sent[k][3]>>

\* C18: under every interleaving of two connection threads and the
\* broadcaster, every card a worker draws and sends comes from the deck of
\* its own round, a step of one worker (a failed read that closes it
\* included) leaves the other worker, the broadcaster, the stop_event and
\* main as they are, and a step of the broadcaster leaves the workers as
\* they are
C18_WorkersIsolated ==
  /\ [](\A c \in Conns : OwnDeck(c))
  /\ [][\A c \in Conns :
          (worker[c].pc # "unstarted" /\ worker'[c] # worker[c]) =>
            /\ \A o \in Conns \ {c} : worker'[o] = worker[o]
            /\ bcast' = bcast
            /\ stop_event' = stop_event
            /\ mpc' = mpc]_vars
  /\ [][bcast' # bcast => worker' = worker]_vars

\* C18 witness: one connection was closed by a failed read in the middle of
\* its round, the other has played its round to the end, and the
\* broadcaster is still in its loop
C18_Witness ==
  /\ worker["a"].pc = "closed"
  /\ worker["a"].cause \in {"timeout", "ConnectionError"}
  /\ worker["a"].sent # <<>> /\ worker["a"].returned = <<>>
  /\ worker["b"].cause = "finished"
  /\ Len(worker["b"].returned) = 1 /\ Terminal(worker["b"].sent)
  /\ bcast.pc = "wait" /\ bcast.attempts >= 2

\* the server is blocked in recv_exact for a ClientPayload, the client in
\* _read_one_server_payload
ServerWaits == spc = "turn" /\ ~PlayerBust(player) /\ c2s = <<>>
ClientWaits == ClientReading /\ s2c = <<>>

\* both sides have left the session
BothDone == cpc = "finished" /\ spc = "closed"

\* a side runs when it has not left the session and is not blocked in a read
ServerRuns ==
  /\ spc # "closed"
  /\ ~ServerWaits
  /\ ~(spc = "request" /\ c2s = <<>>)
ClientRuns ==
  /\ cpc \notin {"finished", "failed", "crashed"}
  /\ ~ClientWaits

\* a side that runs has a step to take, and only such a side
RunsIsEnabled ==
  /\ ServerRuns <=> ENABLED ServerStep
  /\ ClientRuns <=> ENABLED ClientStep

(***************************************************************************)
(* One round on the full deck                                              *)
(***************************************************************************)
InitTable ==
  /\ SessionInit
  /\ CodecIdle
  /\ mpc = "off" /\ stop_event = FALSE /\ bcast = NoThread
  /\ worker = [c \in Conns |-> NoWorker]
  /\ table = [NoTable EXCEPT !.pc = "deal"]

NextTable ==
  \/ TableDeal
  \/ TableBust
  \/ TableHit
  \/ TableStand
  \/ TableDealerDraw
  \/ TableResolve

SpecTable == InitTable /\ [][NextTable]_vars

\* C19: on the deck of 52 cards, whatever the pops yield and whatever the
\* peer decides, no pop finds the deck empty: a round pops at most 13
\* cards, and of no value more cards than the deck holds (no card twice)
C19_DeckNeverEmpty ==
  /\ table.pc # IndexError
  /\ table.n <= 13
  /\ table.n < Cardinality(FullDeck)
  /\ \A v \in Values : table.used[v] <= Copies[v]
  /\ table.pc \in {"turn", "dealer"} => Left(table) # {}

\* C19 witness: a round that has popped 13 cards
C19_Witness ==
  /\ table.pc = "returned"
  /\ table.n = 13

\* what the server has left to do: rounds, then the phase of the round,
\* then the cards of the deck
ServerLeft ==
  CASE spc = "request" -> (MaxRounds + 1) * 40
    [] spc = "round" -> (rounds - i + 1) * 40 + 30
    [] spc = "turn" -> (rounds - i + 1) * 40 + 10 + Cardinality(deck)
    [] spc = "dealer" -> (rounds - i + 1) * 40 + Cardinality(deck)
    [] spc = "closed" -> 0

\* what the client has left to do: rounds, then the phase of the round,
\* then the cards it can still be sent
ClientLeft ==
  CASE cpc = "listen" -> (MaxRounds + 1) * 100
    [] cpc = "round" -> (num_rounds - r + 1) * 100 + 90
    [] cpc = "deal" -> (num_rounds - r + 1) * 100 + 89
                         - (Len(player_cards) + Len(dealer_cards))
    [] cpc = "turn" -> (num_rounds - r + 1) * 100 + 51 + 2 * (10 - Len(player_cards))
    [] cpc = "hit" -> (num_rounds - r + 1) * 100 + 50 + 2 * (10 - Len(player_cards))
    [] cpc = "stand" -> (num_rounds - r + 1) * 100 + 20 + (10 - Len(dealer_cards))
    [] cpc = "drain" -> (num_rounds - r + 1) * 100 + 10
    [] OTHER -> 0

\* the work left in the session: every frame in flight is a read to do
WorkLeft == 4 * ServerLeft + ClientLeft + Len(s2c)

\* the session ends under the scheduling of SpecLive
EventuallyBothDone == <>BothDone

\* C20: on a connection that does not fail the two sides never wait for
\* each other: until both are done one of them runs, and every step lowers
\* the work left, a natural number, so that rounds reach their result frame
\* and the session ends with both sides done
C20_SessionEnds ==
  /\ [](~(ServerWaits /\ ClientWaits))
  /\ [](~BothDone => (ServerRuns \/ ClientRuns))
  /\ [](WorkLeft >= 0)
  /\ [](BothDone => WorkLeft = 0)
  /\ [][WorkLeft' < WorkLeft]_vars

\* C20 witness: a session of two rounds has ended, its last round after a
\* hit
C20_Witness ==
  /\ BothDone
  /\ Len(returned) = 2
  /\ Len(player) >= 3

====
